---- MODULE Spec2Model ----
(***************************************************************************)
(* Cotizador Farmacia Perez (src/app.py).                                  *)
(*                                                                         *)
(* The program is a Streamlit script: every operator interaction (upload   *)
(* or removal of a file, precision change, mode toggle, tie selection,     *)
(* quantity edit) re-runs the whole script top to bottom.  The only state  *)
(* that survives between two runs is the widgets' values and the two       *)
(* dictionaries st.session_state.empate_sel and st.session_state.cantidades*)
(* One action of the model is one complete run of the script.              *)
(*                                                                         *)
(* Text is a sequence of one-character strings, so that stripping,         *)
(* cleaning, parsing and lexicographic comparison are computed.            *)
(* A price is <<>> (NaN, absent) or <<v>> with v an integer number of      *)
(* 10^-Escala currency units.                                              *)
(***************************************************************************)
EXTENDS Integers, Sequences, FiniteSets, TLC

\* ------------------------------------------------------------------ bounds
\* Number of decimal digits a parsed price keeps in the model.
Escala == 4
\* Largest quantity the operator types into a quantity widget.
MaxQty == 1
\* Largest number of rows of a generated pair of workbooks.
MaxFilas == 2
\* Largest precision the operator sets during a session with the workbooks of
\* Biblioteca (no price there has more than Escala decimals), and largest
\* precision of the first run on generated workbooks.
MaxPrecSesion == 2

\* ------------------------------------------------------------------ text
\* Characters of the model in code-point order (Python compares str by
\* code point).
Alfabeto ==
  << " ", "$", ",", "-", ".", "/",
     "0", "1", "2", "3", "4", "5", "6", "7", "8", "9",
     "A", "B", "K", "N", "P", "S", "U",
     "a", "b", "c", "d", "e", "i", "l", "m", "n", "o", "p", "r", "s", "t", "v", "x" >>

CodTabla ==
  [c \in {Alfabeto[i] : i \in 1..Len(Alfabeto)} |->
     CHOOSE i \in 1..Len(Alfabeto) : Alfabeto[i] = c]

\* ord(c)
Cod(c) == CodTabla[c]

Digitos == {"0", "1", "2", "3", "4", "5", "6", "7", "8", "9"}

Blancos == {" "}

RECURSIVE LStrip(_)
LStrip(s) == IF s # <<>> /\ Head(s) \in Blancos THEN LStrip(Tail(s)) ELSE s

RECURSIVE RStrip(_)
RStrip(s) ==
  IF s # <<>> /\ s[Len(s)] \in Blancos THEN RStrip(SubSeq(s, 1, Len(s) - 1)) ELSE s

\* str.strip()
Strip(s) == RStrip(LStrip(s))

\* Python's < on str
RECURSIVE LexMenor(_, _)
LexMenor(s, t) ==
  IF t = <<>> THEN FALSE
  ELSE IF s = <<>> THEN TRUE
  ELSE IF Head(s) = Head(t) THEN LexMenor(Tail(s), Tail(t))
  ELSE Cod(Head(s)) < Cod(Head(t))

\* os.path.splitext(name)[0]: the name without its last extension
SplitextBase(name) ==
  LET puntos == {i \in 2..Len(name) : name[i] = "."}
  IN  IF puntos = {} THEN name
      ELSE SubSeq(name, 1, (CHOOSE i \in puntos : \A j \in puntos : j <= i) - 1)

\* str.match(r'^\d+$')
SoloDigitos(s) == Len(s) > 0 /\ \A i \in 1..Len(s) : s[i] \in Digitos

\* ------------------------------------------------------------------ numbers
NaN == <<>>

Num(v) == <<v>>

EsNaN(x) == x = <<>>

Val(x) == x[1]

RECURSIVE Pot10(_)
Pot10(n) == IF n <= 0 THEN 1 ELSE 10 * Pot10(n - 1)

RECURSIVE NumDe(_)
NumDe(ds) ==
  IF ds = <<>> THEN 0
  ELSE 10 * NumDe(SubSeq(ds, 1, Len(ds) - 1)) + (Cod(ds[Len(ds)]) - Cod("0"))

\* .str.replace(r'[^0-9,\.\-]', '') then .str.replace(',', '')
LimpiaPrecio(s) ==
  LET permitido(c) == c \in Digitos \cup {",", ".", "-"}
      sinComa(c) == c # ","
  IN  SelectSeq(SelectSeq(s, permitido), sinComa)

\* mutant: a cell that is not a number becomes 0 instead of NaN
ToNumeric_cero(s) ==
  LET neg    == s # <<>> /\ Head(s) = "-"
      body   == IF neg THEN Tail(s) ELSE s
      puntos == {i \in 1..Len(body) : body[i] = "."}
      ok     == /\ \A i \in 1..Len(body) : body[i] \in Digitos \cup {"."}
                /\ Cardinality(puntos) <= 1
                /\ \E i \in 1..Len(body) : body[i] \in Digitos
      p      == IF puntos = {} THEN Len(body) + 1 ELSE CHOOSE i \in puntos : TRUE
      ent    == SubSeq(body, 1, p - 1)
      frac   == SubSeq(body, p + 1, Len(body))
      fracE  == [i \in 1..Escala |-> IF i <= Len(frac) THEN frac[i] ELSE "0"]
      mag    == NumDe(ent) * Pot10(Escala) + NumDe(fracE)
  IN  IF ok THEN Num(IF neg THEN 0 - mag ELSE mag) ELSE Num(0)

\* pd.to_numeric(..., errors='coerce') on a cleaned cell: optional sign,
\* digits with at most one point, at least one digit; anything else is NaN.
ToNumeric(s) ==
  LET neg    == s # <<>> /\ Head(s) = "-"
      body   == IF neg THEN Tail(s) ELSE s
      puntos == {i \in 1..Len(body) : body[i] = "."}
      ok     == /\ \A i \in 1..Len(body) : body[i] \in Digitos \cup {"."}
                /\ Cardinality(puntos) <= 1
                /\ \E i \in 1..Len(body) : body[i] \in Digitos
      p      == IF puntos = {} THEN Len(body) + 1 ELSE CHOOSE i \in puntos : TRUE
      ent    == SubSeq(body, 1, p - 1)
      frac   == SubSeq(body, p + 1, Len(body))
      fracE  == [i \in 1..Escala |-> IF i <= Len(frac) THEN frac[i] ELSE "0"]
      mag    == NumDe(ent) * Pot10(Escala) + NumDe(fracE)
  IN  IF ok THEN Num(IF neg THEN 0 - mag ELSE mag) ELSE NaN

\* Series.round(d): numpy rounds x*10^d to the nearest integer, halves to even.
Round(v, d) ==
  LET m == Pot10(Escala - d)
      q == v \div m
      r == v % m
  IN  IF 2 * r < m THEN q * m
      ELSE IF 2 * r > m THEN (q + 1) * m
      ELSE IF q % 2 = 0 THEN q * m ELSE (q + 1) * m


\* ------------------------------------------------------------------ tables
\* columns that hold numbers; the other columns hold text
ColumnasNumericas == {"SKU_num", "Precio"}

\* row a sorts before row b on one column: numbers by value, text by
\* code point
MenorCol(col, a, b) ==
  IF col = "Precio" THEN Val(a[col]) < Val(b[col])
  ELSE IF col \in ColumnasNumericas THEN a[col] < b[col]
  ELSE LexMenor(a[col], b[col])

\* row a sorts before row b on the columns by, the first one most significant
RECURSIVE MenorPor(_, _, _)
MenorPor(by, a, b) ==
  /\ by # <<>>
  /\ \/ MenorCol(Head(by), a, b)
     \/ a[Head(by)] = b[Head(by)] /\ MenorPor(Tail(by), a, b)

\* DataFrame.sort_values(by): rows that compare equal keep their relative
\* order
Ordena(s, by) ==
  LET pos(i) == 1 + Cardinality({j \in 1..Len(s) :
                       \/ MenorPor(by, s[j], s[i])
                       \/ ~MenorPor(by, s[i], s[j]) /\ j < i})
  IN  [k \in 1..Len(s) |-> s[CHOOSE i \in 1..Len(s) : pos(i) = k]]

\* sorted(list of strings)
Sorted(s) ==
  LET t == Ordena([i \in 1..Len(s) |-> [v |-> s[i]]], <<"v">>)
  IN  [i \in 1..Len(t) |-> t[i].v]

RECURSIVE Concat(_)
Concat(ss) == IF ss = <<>> THEN <<>> ELSE Head(ss) \o Concat(Tail(ss))

\* values of a column in order of first appearance (Series.unique())
RECURSIVE Unicos(_)
Unicos(s) ==
  IF s = <<>> THEN <<>>
  ELSE LET r == Unicos(SubSeq(s, 1, Len(s) - 1))
           x == s[Len(s)]
       IN  IF \E i \in 1..Len(r) : r[i] = x THEN r ELSE Append(r, x)

Filas(t) == {t[i] : i \in 1..Len(t)}

RECURSIVE Suma(_)
Suma(s) == IF s = <<>> THEN 0 ELSE Head(s) + Suma(Tail(s))

\* ------------------------------------------------------------------ input
ColSKU == <<"S", "K", "U">>

ColNombre == <<"N", "o", "m", "b", "r", "e">>

ColPrecio == <<"P", "r", "e", "c", "i", "o", " ", "U", "n", "i", "t", "a", "r", "i", "o">>

\* df.columns.str.strip()
Columnas(arch) == {Strip(arch.columnas[i]) : i \in 1..Len(arch.columnas)}

\* min_cols = ['SKU', 'Precio Unitario']
TieneColumnasMinimas(arch) == {ColSKU, ColPrecio} \subseteq Columnas(arch)

\* mutant: only the first row of the SKU column is looked at
SkusValidos_primera(arch) ==
  arch.filas = <<>> \/ SoloDigitos(Strip(arch.filas[1].SKU))

\* invalid_skus is empty
SkusValidos(arch) ==
  \A i \in 1..Len(arch.filas) : SoloDigitos(Strip(arch.filas[i].SKU))

\* the file passes both st.stop() checks of the reading loop
ArchivoValido(arch) == TieneColumnasMinimas(arch) /\ SkusValidos(arch)

\* the normalised frame of one uploaded file
Dataframe(upl) ==
  LET prov_name == SplitextBase(upl.name)
      conNombre == ColNombre \in Columnas(upl.arch)
  IN  [i \in 1..Len(upl.arch.filas) |->
         LET f == upl.arch.filas[i]
         IN  [Proveedor |-> prov_name,
              SKU       |-> Strip(f.SKU),
              Nombre    |-> Strip(IF conNombre THEN f.Nombre ELSE <<>>),
              Precio    |-> ToNumeric(LimpiaPrecio(f.Precio))]]

\* ------------------------------------------------------------------ merge
\* mutant: of the most frequent values, the one met first in the rows
Moda_primera(nombres) ==
  LET frec(n) == Cardinality({i \in 1..Len(nombres) : nombres[i] = n})
      cand    == {n \in Filas(nombres) : \A m \in Filas(nombres) : frec(m) <= frec(n)}
  IN  nombres[CHOOSE i \in 1..Len(nombres) :
                 nombres[i] \in cand /\ \A j \in 1..(i - 1) : nombres[j] \notin cand]

\* s.mode().iloc[0]: the most frequent value, the smallest one when several
\* values share the highest frequency (mode() returns them sorted).
Moda(nombres) ==
  LET frec(n) == Cardinality({i \in 1..Len(nombres) : nombres[i] = n})
      cand    == {n \in Filas(nombres) : \A m \in Filas(nombres) : frec(m) <= frec(n)}
  IN  CHOOSE n \in cand : \A m \in cand : m = n \/ LexMenor(n, m)

Nombres_canon(concat, sku) ==
  LET g == SelectSeq(concat, LAMBDA r : r.SKU = sku)
  IN  Moda([i \in 1..Len(g) |-> Strip(g[i].Nombre)])

\* merged_df: concat, canonical name joined on SKU, sorted by SKU (a str
\* column, so the order is lexicographic)
Merged_df(fs) ==
  LET concat == Concat([i \in 1..Len(fs) |-> Dataframe(fs[i])])
      conCanon == [i \in 1..Len(concat) |->
                     [Proveedor       |-> concat[i].Proveedor,
                      SKU             |-> concat[i].SKU,
                      Nombre          |-> concat[i].Nombre,
                      Precio          |-> concat[i].Precio,
                      Nombre_canonico |-> Nombres_canon(concat, concat[i].SKU)]]
  IN  Ordena(conCanon, <<"SKU">>)


\* ------------------------------------------------------------------ ranking
\* mutant: the comparison price is the unit price as read, not rounded
Precio_cmp_sin_redondeo(precio, prec) == Val(precio)

\* tmp['Precio_cmp'] = tmp['Precio Unitario'].round(precision_empate)
Precio_cmp(precio, prec) == Round(Val(precio), prec)

\* tmp: the priced rows of merged_df with their comparison price
Tmp(merged, prec) ==
  LET conPrecio == SelectSeq(merged, LAMBDA r : ~EsNaN(r.Precio))
  IN  [i \in 1..Len(conPrecio) |->
         [Proveedor       |-> conPrecio[i].Proveedor,
          SKU             |-> conPrecio[i].SKU,
          Nombre          |-> conPrecio[i].Nombre,
          Precio          |-> conPrecio[i].Precio,
          Nombre_canonico |-> conPrecio[i].Nombre_canonico,
          Precio_cmp      |-> Precio_cmp(conPrecio[i].Precio, prec)]]

\* tmp.groupby('SKU')['Precio_cmp'].transform('min')
Min_por_sku(tmp, sku) ==
  LET ps == {tmp[i].Precio_cmp : i \in {j \in 1..Len(tmp) : tmp[j].SKU = sku}}
  IN  CHOOSE m \in ps : \A x \in ps : m <= x

\* empates_df: every row that equals the minimum of its SKU
Empates_df(tmp) ==
  Ordena(SelectSeq(tmp, LAMBDA r : Min_por_sku(tmp, r.SKU) = r.Precio_cmp),
         <<"SKU", "Proveedor">>)

\* _emp: empates_df with SKU_str and SKU_num
Emp(empates) ==
  [i \in 1..Len(empates) |->
     [Proveedor       |-> empates[i].Proveedor,
      SKU             |-> empates[i].SKU,
      SKU_str         |-> empates[i].SKU,
      SKU_num         |-> NumDe(empates[i].SKU),
      Nombre_canonico |-> empates[i].Nombre_canonico,
      Precio          |-> empates[i].Precio,
      Precio_cmp      |-> empates[i].Precio_cmp]]

\* _emp.groupby('SKU_str')['SKU_str'].transform('size')
Counts(emp, sku) == Cardinality({i \in 1..Len(emp) : emp[i].SKU_str = sku})

Ganadores_unicos(emp) ==
  Ordena(SelectSeq(emp, LAMBDA r : Counts(emp, r.SKU_str) = 1),
         <<"Proveedor", "SKU_num", "SKU_str">>)

\* mutant: a group of two rows is not taken as a tie
Empates_reales_mas_de_dos(emp) ==
  Ordena(SelectSeq(emp, LAMBDA r : Counts(emp, r.SKU_str) > 2),
         <<"SKU_num", "Proveedor", "Precio">>)

Empates_reales(emp) ==
  Ordena(SelectSeq(emp, LAMBDA r : Counts(emp, r.SKU_str) > 1),
         <<"SKU_num", "Proveedor", "Precio">>)

\* ------------------------------------------------------------------ session
\* A Python dict is a sequence of <<key, value>> pairs with distinct keys, in
\* insertion order.
DictTiene(d, k) == \E i \in 1..Len(d) : d[i][1] = k

DictGet(d, k, def) ==
  IF DictTiene(d, k) THEN d[CHOOSE i \in 1..Len(d) : d[i][1] = k][2] ELSE def

\* mutant: an assignment adds an entry even when the key is already there
DictSet_duplica(d, k, v) == Append(d, <<k, v>>)

DictSet(d, k, v) ==
  IF DictTiene(d, k)
  THEN [i \in 1..Len(d) |-> IF d[i][1] = k THEN <<k, v>> ELSE d[i]]
  ELSE Append(d, <<k, v>>)

DictPop(d, k) == SelectSeq(d, LAMBDA e : e[1] # k)

DictClaves(d) == {d[i][1] : i \in 1..Len(d)}

\* ------------------------------------------------------------------ tab 1
PLACEHOLDER == <<"-", " ", "S", "e", "l", "e", "c", "c", "i", "o", "n", "a", " ",
                 "p", "r", "o", "v", "e", "e", "d", "o", "r", " ", "-">>

\* the rows of one group of empates_reales.groupby('SKU_str')
Grupo(er, sku) == SelectSeq(er, LAMBDA r : r.SKU_str = sku)

\* proveedores = list(g['Proveedor'].unique())
Proveedores(er, sku) ==
  LET g == Grupo(er, sku) IN Unicos([i \in 1..Len(g) |-> g[i].Proveedor])

Opciones(er, sku) == <<PLACEHOLDER>> \o Proveedores(er, sku)

\* skus of empates_reales in order of first appearance
SkusEmpatados(er) == Unicos([i \in 1..Len(er) |-> er[i].SKU_str])

\* st.selectbox(..., opciones, index=idx, key=f"sel_{sku}"): the option the
\* operator picked in this run if this is the widget they touched, else the
\* option at index idx.
\* a selectbox that forgets its index: an untouched widget shows the placeholder
Selectbox_sin_indice(opciones, idx, sku, ev) ==
  IF ev.tipo = "sel" /\ ev.sku = sku THEN ev.elegido ELSE opciones[1]

Selectbox(opciones, idx, sku, ev) ==
  IF ev.tipo = "sel" /\ ev.sku = sku THEN ev.elegido ELSE opciones[idx]

\* the selection loop of tab_empates over the groups of empates_reales
RECURSIVE Tab_empates(_, _, _, _)
Tab_empates(sel, er, skus, ev) ==
  IF skus = <<>> THEN sel
  ELSE LET sku      == Head(skus)
           opciones == Opciones(er, sku)
           prev     == DictGet(sel, sku, PLACEHOLDER)
           idx      == IF \E i \in 1..Len(opciones) : opciones[i] = prev
                       THEN CHOOSE i \in 1..Len(opciones) : opciones[i] = prev
                       ELSE 1
           elegido  == Selectbox(opciones, idx, sku, ev)
           sel2     == IF elegido # PLACEHOLDER
                       THEN DictSet(sel, sku, elegido)
                       ELSE DictPop(sel, sku)
       IN  Tab_empates(sel2, er, Tail(skus), ev)

\* resueltos / len(skus_empatados), computed before the selection loop;
\* <<>> when "No hay empates." is shown instead
Progreso(sel, er) ==
  IF er = <<>> THEN <<>>
  ELSE LET skus == SkusEmpatados(er)
       IN  <<Cardinality({i \in 1..Len(skus) : DictTiene(sel, skus[i])}), Len(skus)>>

\* ------------------------------------------------------------------ orderable set
FilaGan(r) ==
  [Proveedor       |-> r.Proveedor,
   SKU             |-> r.SKU,
   SKU_str         |-> r.SKU_str,
   Nombre_canonico |-> r.Nombre_canonico,
   Precio          |-> r.Precio]

Gan_base(gu) == [i \in 1..Len(gu) |-> FilaGan(gu[i])]

\* mutant: every row of the chosen supplier in the group is appended, not the
\* first one only
RECURSIVE Elegidas_bloque(_, _)
Elegidas_bloque(er, sel) ==
  IF sel = <<>> THEN <<>>
  ELSE LET sku   == Head(sel)[1]
           prov  == Head(sel)[2]
           block == SelectSeq(er, LAMBDA r : r.SKU_str = sku /\ r.Proveedor = prov)
       IN  [i \in 1..Len(block) |-> FilaGan(block[i])] \o Elegidas_bloque(er, Tail(sel))

\* the rows appended for the stored selections, in dict order
RECURSIVE Elegidas(_, _)
Elegidas(er, sel) ==
  IF sel = <<>> THEN <<>>
  ELSE LET sku   == Head(sel)[1]
           prov  == Head(sel)[2]
           block == SelectSeq(er, LAMBDA r : r.SKU_str = sku /\ r.Proveedor = prov)
       IN  (IF block # <<>> THEN <<FilaGan(block[1])>> ELSE <<>>)
             \o Elegidas(er, Tail(sel))

\* mutant: the chosen row is looked up by product only, so the first row of
\* the group is taken under the chosen supplier's name
Gan_total_por_sku(gu, er, sel) ==
  IF er # <<>> /\ Len(sel) > 0
  THEN Gan_base(gu) \o
       Elegidas([i \in 1..Len(er) |-> [er[i] EXCEPT !.Proveedor =
                    DictGet(sel, er[i].SKU_str, er[i].Proveedor)]], sel)
  ELSE Gan_base(gu)

\* mutant: the chosen row is looked up among winners and ties alike
Gan_total_en_emp(gu, er, sel) ==
  IF Len(sel) > 0
  THEN Gan_base(gu) \o Elegidas(gu \o er, sel)
  ELSE Gan_base(gu)

\* mutant: when no stored choice yields a row, the concatenation is of the
\* empty list of chosen rows alone
Gan_total_sin_base(gu, er, sel) ==
  IF er # <<>> /\ Len(sel) > 0
  THEN IF Elegidas(er, sel) = <<>> THEN <<>> ELSE Gan_base(gu) \o Elegidas(er, sel)
  ELSE Gan_base(gu)

Gan_total(gu, er, sel) ==
  IF er # <<>> /\ Len(sel) > 0
  THEN Gan_base(gu) \o Elegidas(er, sel)
  ELSE Gan_base(gu)


\* ------------------------------------------------------------------ tab 2
\* mutant: the rows of the supplier are left in the order of gan_total
Base_sin_orden(gan, prov) ==
  LET suyas == SelectSeq(gan, LAMBDA r : r.Proveedor = prov)
  IN  [i \in 1..Len(suyas) |->
         [SKU    |-> suyas[i].SKU_str,
          Nombre |-> suyas[i].Nombre_canonico,
          Precio |-> suyas[i].Precio]]

\* base: the rows of one supplier in gan_total, sorted by SKU_num
Base(gan, prov) ==
  LET suyas == SelectSeq(gan, LAMBDA r : r.Proveedor = prov)
      t     == [i \in 1..Len(suyas) |->
                  [SKU    |-> suyas[i].SKU_str,
                   Nombre |-> suyas[i].Nombre_canonico,
                   Precio |-> suyas[i].Precio]]
      conNum == [i \in 1..Len(t) |->
                  [SKU     |-> t[i].SKU,
                   Nombre  |-> t[i].Nombre,
                   Precio  |-> t[i].Precio,
                   SKU_num |-> NumDe(t[i].SKU)]]
      orden  == Ordena(conNum, <<"SKU_num">>)
  IN  [i \in 1..Len(orden) |->
         [SKU    |-> orden[i].SKU,
          Nombre |-> orden[i].Nombre,
          Precio |-> orden[i].Precio]]

\* mutant: the steppers share one widget key, so every stepper returns the
\* number typed into any of them
Number_input_sin_clave(value, key, ev) ==
  IF ev.tipo = "qty" THEN ev.qty ELSE value

\* st.number_input(..., value=cantidades[key], key=f"qty_{prov}_{sku}"): the
\* number the operator typed in this run if this is the widget they touched,
\* else the value passed in.
Number_input(value, key, ev) ==
  IF ev.tipo = "qty" /\ ev.key = key THEN ev.qty ELSE value

\* st.data_editor(...)['Cantidad'] for one row: the cell the operator edited
\* in this run, else the cell of the table passed in.
Data_editor(value, key, ev) ==
  IF ev.tipo = "qty" /\ ev.key = key THEN ev.qty ELSE value

\* mutant: the table of the run is built with the quantities that were stored
\* before the widgets were read
RECURSIVE Flechas_cantidad_previa(_, _, _, _)
Flechas_cantidad_previa(cant, prov, base, ev) ==
  IF base = <<>> THEN [cant |-> cant, qs |-> <<>>]
  ELSE LET key  == <<prov, Head(base).SKU>>
           c1   == IF key \in DOMAIN cant THEN cant ELSE cant @@ (key :> 0)
           qty  == Number_input(c1[key], key, ev)
           c2   == [c1 EXCEPT ![key] = qty]
           rest == Flechas_cantidad_previa(c2, prov, Tail(base), ev)
       IN  [cant |-> rest.cant, qs |-> <<c1[key]>> \o rest.qs]

\* modo_flechas: the per-row loop; yields the updated cantidades and the list
\* of quantities of the rows
RECURSIVE Flechas(_, _, _, _)
Flechas(cant, prov, base, ev) ==
  IF base = <<>> THEN [cant |-> cant, qs |-> <<>>]
  ELSE LET key  == <<prov, Head(base).SKU>>
           c1   == IF key \in DOMAIN cant THEN cant ELSE cant @@ (key :> 0)
           qty  == Number_input(c1[key], key, ev)
           c2   == [c1 EXCEPT ![key] = qty]
           rest == Flechas(c2, prov, Tail(base), ev)
       IN  [cant |-> rest.cant, qs |-> <<qty>> \o rest.qs]

\* the persistence loop after st.data_editor
RECURSIVE Persistir(_, _, _, _)
Persistir(cant, prov, base, qs) ==
  IF base = <<>> THEN cant
  ELSE LET key == <<prov, Head(base).SKU>>
           c1  == IF key \in DOMAIN cant
                  THEN [cant EXCEPT ![key] = Head(qs)]
                  ELSE cant @@ (key :> Head(qs))
       IN  Persistir(c1, prov, Tail(base), Tail(qs))

\* mutant: the editable table starts every run with empty quantities
Editable_desde_cero(cant, prov, base, ev) ==
  LET qs == [i \in 1..Len(base) |-> Data_editor(0, <<prov, base[i].SKU>>, ev)]
  IN  [cant |-> Persistir(cant, prov, base, qs), qs |-> qs]

\* data_editor mode: the table is shown with cantidades.get(key, 0)
Editable(cant, prov, base, ev) ==
  LET qs == [i \in 1..Len(base) |->
               LET key == <<prov, base[i].SKU>>
               IN  Data_editor(IF key \in DOMAIN cant THEN cant[key] ELSE 0, key, ev)]
  IN  [cant |-> Persistir(cant, prov, base, qs), qs |-> qs]

\* tablas_por_proveedor[prov]
Tabla(base, qs) ==
  [i \in 1..Len(base) |->
     [Cantidad |-> qs[i],
      SKU      |-> base[i].SKU,
      Nombre   |-> base[i].Nombre,
      Precio   |-> base[i].Precio,
      Total    |-> Val(base[i].Precio) * qs[i]]]

\* subtotal = tablas_por_proveedor[prov]['Total'].sum()
Subtotal(tabla) == Suma([i \in 1..Len(tabla) |-> tabla[i].Total])

\* proveedores_orden = sorted(gan_total['Proveedor'].unique())
Proveedores_orden(gan) ==
  Sorted(Unicos([i \in 1..Len(gan) |-> gan[i].Proveedor]))

\* the loop over proveedores_orden: cantidades after it, the tables and the
\* subtotals
RECURSIVE Tab_pedido(_, _, _, _, _)
Tab_pedido(cant, gan, provs, modo, ev) ==
  IF provs = <<>> THEN [cant |-> cant, tablas |-> <<>>, subtotales |-> <<>>]
  ELSE LET prov  == Head(provs)
           base  == Base(gan, prov)
           r     == IF modo THEN Flechas(cant, prov, base, ev)
                    ELSE Editable(cant, prov, base, ev)
           tabla == Tabla(base, r.qs)
           rest  == Tab_pedido(r.cant, gan, Tail(provs), modo, ev)
       IN  [cant       |-> rest.cant,
            tablas     |-> (prov :> tabla) @@ rest.tablas,
            subtotales |-> (prov :> Subtotal(tabla)) @@ rest.subtotales]

\* total_global = sum(subtotales.values())
\* mutant: the grand total is the subtotal of the last supplier of the loop
Total_global_ultimo(subtotales) ==
  IF DOMAIN subtotales = {} THEN 0
  ELSE subtotales[CHOOSE p \in DOMAIN subtotales :
                    \A q \in DOMAIN subtotales : q = p \/ LexMenor(q, p)]

Total_global(subtotales) ==
  LET RECURSIVE S(_)
      S(ps) == IF ps = {} THEN 0
               ELSE LET p == CHOOSE x \in ps : TRUE IN subtotales[p] + S(ps \ {p})
  IN  S(DOMAIN subtotales)


\* ------------------------------------------------------------------ the operator's files
\* st.number_input(..., min_value=0, max_value=6, value=2, step=1)
PrecMin == 0

PrecMax == 6

PrecInicial == 2

Columnas3 == << <<" ", "S", "K", "U">>, ColNombre, ColPrecio \o <<" ">> >>

NombreA == <<"A", ".", "x", "l", "s", "x">>

NombreB == <<"B", ".", "x", "l", "s", "x">>

\* SKU 2 at $5.00; SKU 10 twice at the same price, written in two ways, once
\* with a blank name
ArchA1 ==
  [columnas |-> Columnas3,
   filas    |-> << [SKU |-> <<"2">>, Nombre |-> <<"a", "b">>,
                    Precio |-> <<"$", "5", ".", "0", "0">>],
                   [SKU |-> <<"1", "0">>, Nombre |-> <<"c">>,
                    Precio |-> <<"1", ",", "0", "0", "7", ".", "5">>],
                   [SKU |-> <<"1", "0">>, Nombre |-> <<" ">>,
                    Precio |-> <<"$", "1", "0", "0", "7", ".", "5", "0">>] >>]

\* no Nombre column; SKU 2 at 5.4
ArchA2 ==
  [columnas |-> <<ColSKU, ColPrecio>>,
   filas    |-> << [SKU |-> <<"2">>, Nombre |-> <<>>,
                    Precio |-> <<"5", ".", "4">>] >>]

\* second row with a SKU that is not all digits
ArchASkuMalo ==
  [columnas |-> Columnas3,
   filas    |-> << [SKU |-> <<"2">>, Nombre |-> <<"a", "b">>,
                    Precio |-> <<"5", ".", "0", "0">>],
                   [SKU |-> <<"x", "1">>, Nombre |-> <<"c">>,
                    Precio |-> <<"5", ".", "0", "0">>] >>]

\* SKU 2 at 5.049 and at 5.40; SKU 10 without a usable price
ArchB1 ==
  [columnas |-> Columnas3,
   filas    |-> << [SKU |-> <<" ", "2">>, Nombre |-> <<"b", " ">>,
                    Precio |-> <<"5", ".", "0", "4", "9">>],
                   [SKU |-> <<"2">>, Nombre |-> <<"b">>,
                    Precio |-> <<"5", ".", "4", "0">>],
                   [SKU |-> <<"1", "0">>, Nombre |-> <<"c">>,
                    Precio |-> <<"n", "/", "a">>] >>]

\* no Precio Unitario column
ArchASinPrecio ==
  [columnas |-> <<ColSKU, ColNombre>>,
   filas    |-> << [SKU |-> <<"2">>, Nombre |-> <<"a", "b">>, Precio |-> <<>>] >>]

\* the workbooks the operator can upload, one name per supplier
Biblioteca ==
  { [name |-> NombreA, arch |-> ArchA1],
    [name |-> NombreA, arch |-> ArchA2],
    [name |-> NombreA, arch |-> ArchASkuMalo],
    [name |-> NombreA, arch |-> ArchASinPrecio],
    [name |-> NombreB, arch |-> ArchB1] }

ProveedoresPosibles == {SplitextBase(u.name) : u \in Biblioteca}

SkusPosibles ==
  UNION { {Strip(u.arch.filas[i].SKU) : i \in 1..Len(u.arch.filas)} : u \in Biblioteca }

\* ------------------------------------------------------------------ state
VARIABLES
  files,                 \* the uploader's list: <<[name, arch], ...>>
  precision_empate,      \* sidebar number_input
  modo_flechas,          \* sidebar toggle
  empate_sel,            \* st.session_state.empate_sel
  cantidades,            \* st.session_state.cantidades
  estado,                \* how the last run ended: "sin_archivos", "error", "ok"
  merged_df,
  ganadores_unicos,
  empates_reales,
  progreso,
  gan_total,
  tablas_por_proveedor,
  subtotales,
  total_global,
  original,              \* ranking of the first run (SpecRanking), else <<>>
  elegido_en             \* per stored choice, the suppliers of the group it was picked from

vars == <<files, precision_empate, modo_flechas, empate_sel, cantidades, estado,
          merged_df, ganadores_unicos, empates_reales, progreso, gan_total,
          tablas_por_proveedor, subtotales, total_global, original, elegido_en>>

\* nothing below the st.stop() is produced; session_state is not touched
Detenida(e) ==
  /\ estado' = e
  /\ merged_df' = <<>>
  /\ ganadores_unicos' = <<>>
  /\ empates_reales' = <<>>
  /\ progreso' = <<>>
  /\ gan_total' = <<>>
  /\ tablas_por_proveedor' = <<>>
  /\ subtotales' = <<>>
  /\ total_global' = <<>>
  /\ UNCHANGED <<empate_sel, cantidades, elegido_en>>

\* lines 164-219 on the uploaded workbooks: merged_df, ganadores_unicos and
\* empates_reales
Ranking(fs, prec) ==
  LET merged == Merged_df(fs)
      emp    == Emp(Empates_df(Tmp(merged, prec)))
  IN  [merged_df        |-> merged,
       ganadores_unicos |-> Ganadores_unicos(emp),
       empates_reales   |-> Empates_reales(emp)]

\* every content the uploader can have: lists of workbooks of distinct suppliers
RECURSIVE ListasHasta(_)
ListasHasta(n) ==
  IF n = 0 THEN {<<>>}
  ELSE LET prev == ListasHasta(n - 1)
       IN  prev \cup
           {Append(q[1], q[2]) :
              q \in {x \in prev \X Biblioteca :
                       \A i \in 1..Len(x[1]) :
                          SplitextBase(x[1][i].name) # SplitextBase(x[2].name)}}

\* rows of a table for one product_id
EnTabla(t, sku) == {i \in 1..Len(t) : t[i].SKU_str = sku}

\* the suppliers of a tie group
Miembros(er, sku) == {er[i].Proveedor : i \in EnTabla(er, sku)}

TodosValidos(fs) == \A i \in 1..Len(fs) : ArchivoValido(fs[i].arch)

\* ------------------------------------------------------------------ generated workbooks
SkusGen == { <<"2">>, <<"1", "0">> }

PreciosGen ==
  { <<"5", ".", "0", "0">>, <<"5", ".", "0", "0", "4", "9">>, <<"5", ".", "4">>,
    <<"n", "/", "a">> }

FilasGen ==
  { [SKU |-> s, Nombre |-> <<"a">>, Precio |-> p] : s \in SkusGen, p \in PreciosGen }

RECURSIVE TablasGen(_)
TablasGen(n) ==
  IF n = 0 THEN {<<>>}
  ELSE LET prev == TablasGen(n - 1)
       IN  prev \cup {Append(t, f) : t \in prev, f \in FilasGen}

\* a workbook of supplier A and one of supplier B with at most MaxFilas rows
\* between them
ListasGen ==
  { << [name |-> NombreA, arch |-> [columnas |-> Columnas3, filas |-> q[1]]],
       [name |-> NombreB, arch |-> [columnas |-> Columnas3, filas |-> q[2]]] >> :
      q \in {x \in TablasGen(MaxFilas) \X TablasGen(MaxFilas) :
               Len(x[1]) + Len(x[2]) <= MaxFilas} }

\* generated workbooks whose rows differ in product_id and name only
NombresGen == { <<" ">>, <<"a">>, <<"b", "b">> }

FilasNombres ==
  { [SKU |-> s, Nombre |-> n, Precio |-> <<"5", ".", "0", "0">>] :
      s \in SkusGen, n \in NombresGen }

RECURSIVE TablasNombres(_)
TablasNombres(n) ==
  IF n = 0 THEN {<<>>}
  ELSE LET prev == TablasNombres(n - 1)
       IN  prev \cup {Append(t, f) : t \in prev, f \in FilasNombres}

\* a workbook of supplier A and one of supplier B, uploaded in either order,
\* with at most MaxFilas rows between them
ListasNombres ==
  UNION { { << [name |-> NombreA, arch |-> [columnas |-> Columnas3, filas |-> q[1]]],
               [name |-> NombreB, arch |-> [columnas |-> Columnas3, filas |-> q[2]]] >>,
            << [name |-> NombreB, arch |-> [columnas |-> Columnas3, filas |-> q[2]]],
               [name |-> NombreA, arch |-> [columnas |-> Columnas3, filas |-> q[1]]] >> } :
          q \in {x \in TablasNombres(MaxFilas) \X TablasNombres(MaxFilas) :
                   Len(x[1]) + Len(x[2]) <= MaxFilas} }

\* the uploader contents made of workbooks of Biblioteca that all pass the
\* checks of the reading loop
ListasValidas ==
  {fs \in ListasHasta(Cardinality(ProveedoresPosibles)) : TodosValidos(fs)}

\* Ranking of every valid uploader content of Biblioteca at every precision,
\* computed once (@@ makes the table an explicit function)
RankingTabla ==
  [c \in ListasValidas \X (PrecMin..PrecMax) |-> Ranking(c[1], c[2])] @@ <<>>

\* mutant: the rounded prices of the previous run are rounded again, so the
\* ranking is that of the coarser of the previous and the requested precision
RankingAcumulado(fs, prec) ==
  Ranking(fs, IF precision_empate < prec THEN precision_empate ELSE prec)

\* the ranking of one run: Precio_cmp is rounded from 'Precio Unitario' as read
RankingDe(fs, prec) ==
  IF fs \in ListasValidas THEN RankingTabla[<<fs, prec>>] ELSE Ranking(fs, prec)

\* what a run leaves behind once tab_pedido is done
Salida(r, sel, prog, gan, ped) ==
  [merged_df            |-> r.merged_df,
   ganadores_unicos     |-> r.ganadores_unicos,
   empates_reales       |-> r.empates_reales,
   progreso             |-> prog,
   empate_sel           |-> sel,
   gan_total            |-> gan,
   cantidades           |-> ped.cant,
   tablas_por_proveedor |-> ped.tablas,
   subtotales           |-> ped.subtotales,
   total_global         |-> IF gan = <<>> THEN <<>>
                            ELSE <<Total_global(ped.subtotales)>>]

\* the run from tab_pedido on, with gan_total built
ConGanadores(r, sel, prog, gan, modo, cant0, ev) ==
  Salida(r, sel, prog, gan, Tab_pedido(cant0, gan, Proveedores_orden(gan), modo, ev))

\* the run from gan_base on, with the selections of tab_empates stored
ConSeleccion(r, sel, prog, modo, cant0, ev) ==
  ConGanadores(r, sel, prog,
               Gan_total(r.ganadores_unicos, r.empates_reales, sel), modo, cant0, ev)

\* the run from the tabs on, with the ranking r computed
ConRanking(r, modo, sel0, cant0, ev) ==
  ConSeleccion(r,
               Tab_empates(sel0, r.empates_reales, SkusEmpatados(r.empates_reales), ev),
               Progreso(sel0, r.empates_reales), modo, cant0, ev)

\* what one run of the script that passes validation leaves behind, from the
\* widgets (fs, prec, modo), the session state (sel0, cant0) and the
\* operator's interaction ev
Resultado(fs, prec, modo, sel0, cant0, ev) ==
  ConRanking(RankingDe(fs, prec), modo, sel0, cant0, ev)

\* one run of the script
Corre(fs, prec, modo, ev) ==
  /\ files' = fs
  /\ precision_empate' = prec
  /\ modo_flechas' = modo
  /\ UNCHANGED original
  /\ IF fs = <<>> THEN Detenida("sin_archivos")
     ELSE IF ~TodosValidos(fs) THEN Detenida("error")
     ELSE \E x \in {Resultado(fs, prec, modo, empate_sel, cantidades, ev)} :
          /\ estado' = "ok"
          /\ merged_df' = x.merged_df
          /\ ganadores_unicos' = x.ganadores_unicos
          /\ empates_reales' = x.empates_reales
          /\ progreso' = x.progreso
          /\ empate_sel' = x.empate_sel
          /\ gan_total' = x.gan_total
          /\ cantidades' = x.cantidades
          /\ tablas_por_proveedor' = x.tablas_por_proveedor
          /\ subtotales' = x.subtotales
          /\ total_global' = x.total_global
          /\ elegido_en' =
               [sku \in DictClaves(x.empate_sel) |->
                  IF (ev.tipo = "sel" /\ ev.sku = sku) \/ sku \notin DOMAIN elegido_en
                  THEN Miembros(x.empates_reales, sku)
                  ELSE elegido_en[sku]]

\* the session of a first run on generated workbooks fs at precision p; the
\* ranking of that first run is kept in original (every precision of the
\* slider is set afterwards, by CambiarPrecision)
InitRanking ==
  \E fs \in ListasGen, p \in PrecMin..MaxPrecSesion :
     /\ files = fs
     /\ precision_empate = p
     /\ modo_flechas = FALSE
     /\ \E x \in {Resultado(fs, p, FALSE, <<>>, <<>>, [tipo |-> "archivos"])} :
        /\ estado = "ok"
        /\ merged_df = x.merged_df
        /\ ganadores_unicos = x.ganadores_unicos
        /\ empates_reales = x.empates_reales
        /\ progreso = x.progreso
        /\ empate_sel = x.empate_sel
        /\ gan_total = x.gan_total
        /\ cantidades = x.cantidades
        /\ tablas_por_proveedor = x.tablas_por_proveedor
        /\ subtotales = x.subtotales
        /\ total_global = x.total_global
        /\ elegido_en = <<>>
        /\ original = << [precision        |-> p,
                          merged_df        |-> x.merged_df,
                          ganadores_unicos |-> x.ganadores_unicos,
                          empates_reales   |-> x.empates_reales] >>

\* the session of a first run on generated workbooks fs that differ in names,
\* at the precision the sidebar starts with; the catalog of that first run is
\* kept in original
InitNombres ==
  \E fs \in ListasNombres :
     /\ files = fs
     /\ precision_empate = PrecInicial
     /\ modo_flechas = FALSE
     /\ \E x \in {Resultado(fs, PrecInicial, FALSE, <<>>, <<>>, [tipo |-> "archivos"])} :
        /\ estado = "ok"
        /\ merged_df = x.merged_df
        /\ ganadores_unicos = x.ganadores_unicos
        /\ empates_reales = x.empates_reales
        /\ progreso = x.progreso
        /\ empate_sel = x.empate_sel
        /\ gan_total = x.gan_total
        /\ cantidades = x.cantidades
        /\ tablas_por_proveedor = x.tablas_por_proveedor
        /\ subtotales = x.subtotales
        /\ total_global = x.total_global
        /\ elegido_en = <<>>
        /\ original = << [precision        |-> PrecInicial,
                          merged_df        |-> x.merged_df,
                          ganadores_unicos |-> x.ganadores_unicos,
                          empates_reales   |-> x.empates_reales] >>

Init ==
  /\ files = <<>>
  /\ precision_empate = PrecInicial
  /\ modo_flechas = FALSE
  /\ empate_sel = <<>>
  /\ cantidades = <<>>
  /\ estado = "sin_archivos"
  /\ merged_df = <<>>
  /\ ganadores_unicos = <<>>
  /\ empates_reales = <<>>
  /\ progreso = <<>>
  /\ gan_total = <<>>
  /\ tablas_por_proveedor = <<>>
  /\ subtotales = <<>>
  /\ total_global = <<>>
  /\ original = <<>>
  /\ elegido_en = <<>>

\* ------------------------------------------------------------------ operations
\* the operator adds a workbook to the uploader (one per supplier)
Subir(upl) ==
  /\ \A i \in 1..Len(files) : SplitextBase(files[i].name) # SplitextBase(upl.name)
  /\ Corre(Append(files, upl),
           precision_empate, modo_flechas, [tipo |-> "archivos"])

\* the operator removes a workbook from the uploader
Quitar(i) ==
  /\ i \in 1..Len(files)
  /\ Corre(SubSeq(files, 1, i - 1) \o SubSeq(files, i + 1, Len(files)),
           precision_empate, modo_flechas, [tipo |-> "archivos"])

\* the operator changes the precision in the sidebar
CambiarPrecision(p) ==
  /\ p # precision_empate
  /\ Corre(files, p, modo_flechas, [tipo |-> "precision"])

\* the operator flips the quantity-entry toggle
CambiarModo ==
  Corre(files, precision_empate, ~modo_flechas, [tipo |-> "modo"])

\* the operator picks an option of the selectbox of a tie shown by the last run
Seleccionar(sku, elegido) ==
  /\ estado = "ok"
  /\ \E i \in 1..Len(empates_reales) : empates_reales[i].SKU_str = sku
  /\ \E i \in 1..Len(Opciones(empates_reales, sku)) :
        Opciones(empates_reales, sku)[i] = elegido
  /\ elegido # DictGet(empate_sel, sku, PLACEHOLDER)
  /\ Corre(files, precision_empate, modo_flechas,
           [tipo |-> "sel", sku |-> sku, elegido |-> elegido])

\* the operator types a quantity into a line shown by the last run
EditarCantidad(prov, sku, qty) ==
  /\ estado = "ok"
  /\ prov \in DOMAIN tablas_por_proveedor
  /\ \E i \in 1..Len(tablas_por_proveedor[prov]) :
        /\ tablas_por_proveedor[prov][i].SKU = sku
        /\ tablas_por_proveedor[prov][i].Cantidad # qty
  /\ Corre(files, precision_empate, modo_flechas,
           [tipo |-> "qty", key |-> <<prov, sku>>, qty |-> qty])

Next ==
  \/ \E u \in Biblioteca : Subir(u)
  \/ \E i \in 1..Cardinality(ProveedoresPosibles) : Quitar(i)
  \/ \E p \in PrecMin..MaxPrecSesion : CambiarPrecision(p)
  \/ CambiarModo
  \/ \E s \in SkusPosibles, e \in ProveedoresPosibles \cup {PLACEHOLDER} : Seleccionar(s, e)
  \/ \E pr \in ProveedoresPosibles, s \in SkusPosibles, q \in 0..MaxQty :
        EditarCantidad(pr, s, q)

Spec == Init /\ [][Next]_vars

\* the ranking as a function of the workbooks and the precision: generated
\* workbooks, every precision, the precision then changed at will
NextRanking == \E p \in PrecMin..PrecMax : CambiarPrecision(p)

SpecRanking == InitRanking /\ [][NextRanking]_vars

\* the operator empties the uploader and uploads the same workbooks again,
\* the other supplier first
InvertirProveedores ==
  /\ Len(files) = 2
  /\ Corre(<<files[2], files[1]>>, precision_empate, modo_flechas, [tipo |-> "archivos"])

\* the operator replaces the workbook of a supplier by one with the same rows,
\* rows j and j + 1 exchanged
IntercambiarFilas(i, j) ==
  /\ i \in 1..Len(files)
  /\ j \in 1..(Len(files[i].arch.filas) - 1)
  /\ files[i].arch.filas[j] # files[i].arch.filas[j + 1]
  /\ Corre([files EXCEPT ![i].arch.filas =
                     [k \in 1..Len(@) |-> IF k = j THEN @[j + 1]
                                          ELSE IF k = j + 1 THEN @[j] ELSE @[k]]],
           precision_empate, modo_flechas, [tipo |-> "archivos"])

\* the catalog as a function of the set of uploaded rows: generated workbooks,
\* then uploaded again in any other order of suppliers and of rows
NextNombres ==
  \/ InvertirProveedores
  \/ \E i \in 1..Cardinality(ProveedoresPosibles), j \in 1..MaxFilas : IntercambiarFilas(i, j)

SpecNombres == InitNombres /\ [][NextNombres]_vars


\* ------------------------------------------------------------------ vocabulary of the properties
\* the uploaded rows, normalised, in upload order
Entrada == Concat([i \in 1..Len(files) |-> Dataframe(files[i])])

\* product_ids with at least one row of the frame e whose unit price is present
SkusConPrecioDe(e) ==
  {e[i].SKU : i \in {j \in 1..Len(e) : ~EsNaN(e[j].Precio)}}

SkusConPrecio == SkusConPrecioDe(Entrada)

\* number of priced rows of a product_id in the frame e whose rounded price
\* is the minimum rounded price of that product_id
TamGrupoMin(e, sku) ==
  LET suyas == {i \in 1..Len(e) : e[i].SKU = sku /\ ~EsNaN(e[i].Precio)}
      cmp == [i \in suyas |-> Round(Val(e[i].Precio), precision_empate)]
  IN  Cardinality({i \in suyas : \A j \in suyas : cmp[i] <= cmp[j]})

\* the real ties of a run
SkusEmpate(er) == {er[i].SKU_str : i \in 1..Len(er)}

\* the stored resolution of sku names a supplier of its current tie group
Resuelto(er, sel, sku) ==
  /\ sku \in SkusEmpate(er)
  /\ DictTiene(sel, sku)
  /\ DictGet(sel, sku, PLACEHOLDER) \in Miembros(er, sku)

\* ------------------------------------------------------------------ C1
\* C1: after a run that passes validation, every product_id with a priced row
\* is in exactly one of the two tables: once in ganadores_unicos when its
\* minimum-price group has one row, or in empates_reales with all the rows of
\* its minimum-price group when that group has more than one row.
C1_Particion ==
  estado = "ok" =>
    LET e == Entrada
    IN  \A sku \in SkusConPrecioDe(e) :
           LET nG == Cardinality(EnTabla(ganadores_unicos, sku))
               nE == Cardinality(EnTabla(empates_reales, sku))
               n  == TamGrupoMin(e, sku)
           IN  \/ n = 1 /\ nG = 1 /\ nE = 0
               \/ n > 1 /\ nG = 0 /\ nE = n

\* a product that is a real tie at this precision and was a unique winner at
\* the precision of the first run
C1_Testigo ==
  /\ estado = "ok"
  /\ original # <<>>
  /\ \E sku \in SkusConPrecio :
        /\ EnTabla(empates_reales, sku) # {}
        /\ EnTabla(original[1].ganadores_unicos, sku) # {}


\* ------------------------------------------------------------------ C2
\* rows of the orderable set for one product_id
EnGan(sku) == {i \in 1..Len(gan_total) : gan_total[i].SKU_str = sku}

\* C2: after every run that passes validation the orderable set is the unique
\* winners plus, for each real tie whose stored resolution names a supplier
\* of the group, one row of that supplier taken from the group; a real tie
\* without a stored resolution has no row in it.
C2_Ordenable ==
  estado = "ok" =>
    /\ \A i \in 1..Len(ganadores_unicos) :
          \E j \in 1..Len(gan_total) : gan_total[j] = FilaGan(ganadores_unicos[i])
    /\ \A sku \in SkusEmpate(empates_reales) :
          IF Resuelto(empates_reales, empate_sel, sku)
          THEN /\ Cardinality(EnGan(sku)) = 1
               /\ \A j \in EnGan(sku) :
                     /\ gan_total[j].Proveedor = DictGet(empate_sel, sku, PLACEHOLDER)
                     /\ \E k \in EnTabla(empates_reales, sku) :
                           gan_total[j] = FilaGan(empates_reales[k])
          ELSE EnGan(sku) = {}
    /\ Len(gan_total) =
         Len(ganadores_unicos)
           + Cardinality({sku \in SkusEmpate(empates_reales) :
                            Resuelto(empates_reales, empate_sel, sku)})

\* one real tie resolved and in the orderable set, another one unresolved,
\* next to a stored quantity
C2_Testigo ==
  /\ estado = "ok"
  /\ \E s1, s2 \in SkusEmpate(empates_reales) :
        /\ Resuelto(empates_reales, empate_sel, s1)
        /\ ~DictTiene(empate_sel, s2)
        /\ EnGan(s1) # {}
        /\ Cardinality(Miembros(empates_reales, s1)) > 1
  /\ \E k \in DOMAIN cantidades : cantidades[k] > 0

\* ------------------------------------------------------------------ C3
\* C3: a stored choice that is not a valid resolution (its product is not a
\* real tie of the current run, or its supplier is not in the group) adds no
\* row to the orderable set, and a run only ever stores, for a product, a
\* supplier of that product's current tie group.
C3_SinAporte ==
  estado = "ok" =>
    \A sku \in DictClaves(empate_sel) :
       ~Resuelto(empates_reales, empate_sel, sku) =>
          Cardinality(EnGan(sku)) = Cardinality(EnTabla(ganadores_unicos, sku))

C3_SoloMiembros ==
  \A sku \in DictClaves(empate_sel') :
     (~DictTiene(empate_sel, sku)
        \/ DictGet(empate_sel, sku, PLACEHOLDER) # DictGet(empate_sel', sku, PLACEHOLDER))
       => DictGet(empate_sel', sku, PLACEHOLDER) \in Miembros(empates_reales', sku)

C3_Obsoleta == [](C3_SinAporte) /\ [][C3_SoloMiembros]_vars

\* a stored choice for a product that is now the unique winner of the very
\* supplier that was chosen
C3_Testigo ==
  /\ estado = "ok"
  /\ \E sku \in DictClaves(empate_sel) :
        /\ sku \notin SkusEmpate(empates_reales)
        /\ \E i \in EnTabla(ganadores_unicos, sku) :
              ganadores_unicos[i].Proveedor = DictGet(empate_sel, sku, PLACEHOLDER)

\* ------------------------------------------------------------------ C4
\* a stored choice whose product is no longer a real tie, or is a real tie of
\* other suppliers than when the operator picked
GrupoAlterado(sku) ==
  /\ sku \in DOMAIN elegido_en
  /\ \/ sku \notin SkusEmpate(empates_reales)
     \/ Miembros(empates_reales, sku) # elegido_en[sku]

\* C4 as stated: once the group of a stored choice has been altered, the
\* product is not orderable through that choice until the operator selects
\* anew, even when the chosen supplier is still a member.
C4_Original ==
  estado = "ok" =>
    \A sku \in DictClaves(empate_sel) :
       GrupoAlterado(sku) =>
          Cardinality(EnGan(sku)) = Cardinality(EnTabla(ganadores_unicos, sku))

C4_Recalculo ==
  (estado' = "ok" /\ (files' # files \/ precision_empate' # precision_empate)) =>
    \A sku \in DictClaves(empate_sel) :
       LET S == DictGet(empate_sel, sku, PLACEHOLDER)
       IN  IF sku \in SkusEmpate(empates_reales') /\ S \in Miembros(empates_reales', sku)
           THEN /\ DictGet(empate_sel', sku, PLACEHOLDER) = S
                /\ \E j \in EnGan(sku)' : gan_total'[j].Proveedor = S
           ELSE /\ Cardinality(EnGan(sku)') =
                     Cardinality(EnTabla(ganadores_unicos', sku))
                /\ sku \in SkusEmpate(empates_reales') => ~DictTiene(empate_sel', sku)
                /\ sku \notin SkusEmpate(empates_reales') =>
                     DictGet(empate_sel', sku, PLACEHOLDER) = S

\* C4 (amended): a run after a change of the files or of the precision keeps
\* a stored choice whose supplier is a member of the product's new tie group,
\* whatever else changed in the group, and the product stays orderable under
\* that supplier; it drops the choice when the product is a real tie without
\* that supplier, and keeps it stored without any row in the orderable set
\* when the product is not a real tie.
C4_Reconsiderada == [][C4_Recalculo]_vars

\* a choice that is in force in a group of other suppliers than the group it
\* was picked from
C4_Testigo ==
  /\ estado = "ok"
  /\ \E sku \in DOMAIN elegido_en :
        /\ Resuelto(empates_reales, empate_sel, sku)
        /\ Miembros(empates_reales, sku) # elegido_en[sku]
        /\ \E j \in EnGan(sku) :
              gan_total[j].Proveedor = DictGet(empate_sel, sku, PLACEHOLDER)

TotalLinea(i) ==
  LET k == <<gan_total[i].Proveedor, gan_total[i].SKU_str>>
  IN  Val(gan_total[i].Precio) * (IF k \in DOMAIN cantidades THEN cantidades[k] ELSE 0)

\* C6: after every run that passes validation, the subtotal of each supplier
\* is the sum of the line totals of that supplier's rows of the orderable
\* set, the suppliers with a subtotal are the suppliers of the orderable set,
\* and the grand total is the sum of the line totals of all its rows, so a
\* quantity stored for a key outside the orderable set adds nothing.
C6_Totales ==
  estado = "ok" =>
    /\ DOMAIN subtotales = {gan_total[i].Proveedor : i \in 1..Len(gan_total)}
    /\ \A prov \in DOMAIN subtotales :
          subtotales[prov] =
            Suma([i \in 1..Len(gan_total) |->
                    IF gan_total[i].Proveedor = prov THEN TotalLinea(i) ELSE 0])
    /\ IF gan_total = <<>> THEN total_global = <<>>
       ELSE total_global = <<Suma([i \in 1..Len(gan_total) |-> TotalLinea(i)])>>

\* two suppliers with a positive subtotal each, and a positive quantity
\* stored for a key that is not orderable
C6_Testigo ==
  /\ estado = "ok"
  /\ \E p, q \in DOMAIN subtotales : p # q /\ subtotales[p] > 0 /\ subtotales[q] > 0
  /\ \E k \in DOMAIN cantidades :
        /\ cantidades[k] > 0
        /\ \A i \in 1..Len(gan_total) :
              <<gan_total[i].Proveedor, gan_total[i].SKU_str>> # k

\* ------------------------------------------------------------------ C7
\* the suppliers whose order table of the new state has a line for sku
PideA(sku) ==
  {prov \in DOMAIN tablas_por_proveedor' :
     \E i \in 1..Len(tablas_por_proveedor'[prov]) :
        tablas_por_proveedor'[prov][i].SKU = sku}

\* a step of Seleccionar(sku, elegido), told by what it does to the widgets
\* and to empate_sel: a run on the same files, precision and entry mode that
\* stores what the selection loop stores when the operator picks elegido in
\* the selectbox of sku
EsSeleccion(sku, elegido) ==
  /\ estado = "ok" /\ estado' = "ok"
  /\ files' = files
  /\ precision_empate' = precision_empate
  /\ modo_flechas' = modo_flechas
  /\ sku \in SkusEmpate(empates_reales)
  /\ elegido # DictGet(empate_sel, sku, PLACEHOLDER)
  /\ empate_sel' = Tab_empates(empate_sel, empates_reales',
                               SkusEmpatados(empates_reales'),
                               [tipo |-> "sel", sku |-> sku, elegido |-> elegido])

C7_Efecto(sku, elegido) ==
  IF elegido # PLACEHOLDER
  THEN /\ DictGet(empate_sel', sku, PLACEHOLDER) = elegido
       /\ Cardinality(EnGan(sku)') = 1
       /\ \A j \in EnGan(sku)' : gan_total'[j].Proveedor = elegido
       /\ PideA(sku) = {elegido}
  ELSE /\ ~DictTiene(empate_sel', sku)
       /\ EnGan(sku)' = {}
       /\ PideA(sku) = {}

\* C7: a step in which the operator picks supplier S in the selectbox of a
\* real tie leaves S stored for that product, whether or not a choice was
\* stored before, with exactly one row of the product in the orderable set,
\* under S, and a line for it in the order table of S only; a step in which
\* the operator picks the placeholder leaves no choice stored for the product
\* and no row or line for it under any supplier.
C7_Seleccion ==
  [][\A sku \in SkusPosibles, elegido \in ProveedoresPosibles \cup {PLACEHOLDER} :
       EsSeleccion(sku, elegido) => C7_Efecto(sku, elegido)]_vars

\* a real tie ordered from its chosen supplier after having been ordered from
\* another one, next to a real tie that was ordered before and has no choice
\* stored now
C7_Testigo ==
  /\ estado = "ok"
  /\ \E s1, s2 \in SkusEmpate(empates_reales) :
        /\ Resuelto(empates_reales, empate_sel, s1)
        /\ Cardinality(EnGan(s1)) = 1
        /\ \E p, q \in Miembros(empates_reales, s1) :
              /\ p # q
              /\ <<p, s1>> \in DOMAIN cantidades
              /\ <<q, s1>> \in DOMAIN cantidades
        /\ ~DictTiene(empate_sel, s2)
        /\ EnGan(s2) = {}
        /\ \E k \in DOMAIN cantidades : k[2] = s2

\* ------------------------------------------------------------------ C8
\* a run caused by anything but a quantity edit
Recalculo ==
  \/ files' # files
  \/ precision_empate' # precision_empate
  \/ modo_flechas' # modo_flechas
  \/ empate_sel' # empate_sel

C8_Paso ==
  /\ DOMAIN cantidades \subseteq DOMAIN cantidades'
  /\ Recalculo => \A k \in DOMAIN cantidades : cantidades'[k] = cantidades[k]
  /\ Cardinality({k \in DOMAIN cantidades : cantidades'[k] # cantidades[k]}) <= 1

C8_Muestra ==
  estado = "ok" =>
    \A prov \in DOMAIN tablas_por_proveedor :
       \A i \in 1..Len(tablas_por_proveedor[prov]) :
          /\ <<prov, tablas_por_proveedor[prov][i].SKU>> \in DOMAIN cantidades
          /\ tablas_por_proveedor[prov][i].Cantidad =
               cantidades[<<prov, tablas_por_proveedor[prov][i].SKU>>]

\* C8: no run removes a stored quantity; a run caused by a change of the
\* files, the precision, the entry mode or a tie selection changes no stored
\* quantity, whether its key is in the orderable set or not, and a quantity
\* edit changes at most the edited key; every order line shows the quantity
\* stored for its key, so a key that comes back shows what was entered.
C8_Persistencia == [](C8_Muestra) /\ [][C8_Paso]_vars

\* a positive quantity kept for a supplier of a real tie that is now ordered
\* from another supplier of the group
C8_Testigo ==
  /\ estado = "ok"
  /\ \E sku \in SkusEmpate(empates_reales) :
        /\ Resuelto(empates_reales, empate_sel, sku)
        /\ \E p \in Miembros(empates_reales, sku) :
              /\ p # DictGet(empate_sel, sku, PLACEHOLDER)
              /\ <<p, sku>> \in DOMAIN cantidades
              /\ cantidades[<<p, sku>>] > 0
              /\ <<DictGet(empate_sel, sku, PLACEHOLDER), sku>> \in DOMAIN cantidades
              /\ cantidades[<<DictGet(empate_sel, sku, PLACEHOLDER), sku>>] > 0

\* ------------------------------------------------------------------ C9
\* a workbook without a SKU or a Precio Unitario header, or with a row whose
\* product_id, blanks around it apart, is empty or has a character that is
\* not a digit
Defectuoso(arch) ==
  \/ \E c \in {ColSKU, ColPrecio} :
        \A i \in 1..Len(arch.columnas) : Strip(arch.columnas[i]) # c
  \/ \E i \in 1..Len(arch.filas) :
        LET t == Strip(arch.filas[i].SKU)
        IN  t = <<>> \/ \E j \in 1..Len(t) : t[j] \notin Digitos

C9_Nada ==
  (\E i \in 1..Len(files) : Defectuoso(files[i].arch)) =>
     /\ estado = "error"
     /\ merged_df = <<>>
     /\ ganadores_unicos = <<>>
     /\ empates_reales = <<>>
     /\ progreso = <<>>
     /\ gan_total = <<>>
     /\ tablas_por_proveedor = <<>>
     /\ subtotales = <<>>
     /\ total_global = <<>>

C9_Sesion ==
  (\E i \in 1..Len(files') : Defectuoso(files'[i].arch)) =>
     /\ empate_sel' = empate_sel
     /\ cantidades' = cantidades

\* C9: whenever one of the uploaded workbooks lacks a required column or has
\* a product_id that is not all digits, the run has halted with an error and
\* has produced no merged catalog, ranking, tie list, orderable set, order
\* table or total, whatever the other workbooks are, and a run on such an
\* upload leaves the stored selections and quantities as they were.
C9_TodoONada == [](C9_Nada) /\ [][C9_Sesion]_vars

\* a good workbook followed by a defective one, with a selection and a
\* positive quantity in the session
C9_Testigo ==
  /\ estado = "error"
  /\ Len(files) = 2
  /\ ~Defectuoso(files[1].arch)
  /\ Defectuoso(files[2].arch)
  /\ empate_sel # <<>>
  /\ \E k \in DOMAIN cantidades : cantidades[k] > 0

\* ------------------------------------------------------------------ C10
\* a price cell without a single digit: no cleaning makes a number of it
Ilegible(celda) == \A j \in 1..Len(celda) : celda[j] \notin Digitos

\* the rows of the uploaded workbooks, as <<file, row>>
Registros ==
  UNION { {<<i, j>> : j \in 1..Len(files[i].arch.filas)} : i \in 1..Len(files) }

RegistrosDe(prov, sku) ==
  {ij \in Registros :
     /\ SplitextBase(files[ij[1]].name) = prov
     /\ Strip(files[ij[1]].arch.filas[ij[2]].SKU) = sku}

CeldaPrecio(ij) == files[ij[1]].arch.filas[ij[2]].Precio

C10_NoFatal ==
  (files # <<>> /\ \A i \in 1..Len(files) : ~Defectuoso(files[i].arch)) => estado = "ok"

C10_EnCatalogo ==
  estado = "ok" =>
    /\ Len(merged_df) = Cardinality(Registros)
    /\ \A ij \in Registros :
          LET prov == SplitextBase(files[ij[1]].name)
              sku  == Strip(files[ij[1]].arch.filas[ij[2]].SKU)
              suyas == {k \in 1..Len(merged_df) :
                          merged_df[k].Proveedor = prov /\ merged_df[k].SKU = sku}
          IN  /\ Cardinality(suyas) = Cardinality(RegistrosDe(prov, sku))
              /\ Cardinality({k \in suyas : EsNaN(merged_df[k].Precio)}) >=
                    Cardinality({r \in RegistrosDe(prov, sku) : Ilegible(CeldaPrecio(r))})

C10_SinRanking ==
  estado = "ok" =>
    \A t \in {ganadores_unicos, empates_reales, gan_total} :
       \A i \in 1..Len(t) :
          /\ ~EsNaN(t[i].Precio)
          /\ \E r \in RegistrosDe(t[i].Proveedor, t[i].SKU) : ~Ilegible(CeldaPrecio(r))

\* C10: workbooks that pass the column and product_id checks give a run that
\* completes, whatever their price cells hold; every row of every workbook
\* is in the merged catalog, a row whose price cell has no digit with an
\* absent price; and no row with an absent price is among the unique
\* winners, the real ties or the orderable set, whose rows all come from a
\* supplier's row for that product with a price cell that is not of that kind.
C10_PrecioIlegible == C10_NoFatal /\ C10_EnCatalogo /\ C10_SinRanking

\* a catalog with a row without price for a product that another supplier
\* wins or ties, after a tie selection
C10_Testigo ==
  /\ estado = "ok"
  /\ empate_sel # <<>>
  /\ \E k \in 1..Len(merged_df) :
        /\ EsNaN(merged_df[k].Precio)
        /\ \E i \in 1..Len(gan_total) :
              /\ gan_total[i].SKU = merged_df[k].SKU
              /\ gan_total[i].Proveedor # merged_df[k].Proveedor

\* ------------------------------------------------------------------ C11
\* C11: after a run that passes validation, for every product_id with a
\* priced row, the rows of that product among the unique winners and the real
\* ties are exactly the priced rows whose unit price, rounded to the
\* precision, equals the least rounded price of the product: the same rows
\* supplier by supplier and price by price, so prices that differ only below
\* the precision are in the group together and no row that rounds above the
\* minimum is in it.
C11_GrupoExacto ==
  estado = "ok" =>
    LET e     == Entrada
        grupo == ganadores_unicos \o empates_reales
    IN  \A sku \in SkusConPrecioDe(e) :
           LET suyas   == {i \in 1..Len(e) : e[i].SKU = sku /\ ~EsNaN(e[i].Precio)}
               cmp     == [i \in suyas |-> Round(Val(e[i].Precio), precision_empate)]
               enMin   == {i \in suyas : \A j \in suyas : cmp[i] <= cmp[j]}
               enGrupo == {k \in 1..Len(grupo) : grupo[k].SKU = sku}
           IN  /\ Cardinality(enGrupo) = Cardinality(enMin)
               /\ \A i \in suyas :
                     Cardinality({j \in enMin : /\ e[j].Proveedor = e[i].Proveedor
                                                /\ e[j].Precio = e[i].Precio})
                       = Cardinality({k \in enGrupo :
                                        /\ grupo[k].Proveedor = e[i].Proveedor
                                        /\ grupo[k].Precio = e[i].Precio})

\* at precision 2, a real tie of two rows whose unit prices are not equal
C11_Testigo ==
  /\ estado = "ok"
  /\ precision_empate = 2
  /\ \E i, j \in 1..Len(empates_reales) :
        /\ empates_reales[i].SKU = empates_reales[j].SKU
        /\ empates_reales[i].Precio # empates_reales[j].Precio

\* ------------------------------------------------------------------ C12
\* the trimmed names the uploaded rows give to a product_id, one per row
NombresDe(e, sku) ==
  LET g == SelectSeq(e, LAMBDA r : r.SKU = sku)
  IN  [i \in 1..Len(g) |-> Strip(g[i].Nombre)]

\* number of rows that give the name n
Frecuencia(nombres, n) == Cardinality({i \in 1..Len(nombres) : nombres[i] = n})

\* the non-empty names of the highest frequency among the non-empty names
MasFrecuentes(nombres) ==
  LET noVacios == {nombres[i] : i \in 1..Len(nombres)} \ {<<>>}
  IN  {n \in noVacios :
         \A m \in noVacios : Frecuencia(nombres, m) <= Frecuencia(nombres, n)}

\* C12: after a run that passes validation, every row of the merged catalog
\* carries as canonical name of its product_id a most frequent non-empty
\* trimmed name of that product_id, one of the longest among the names of that
\* frequency, and the empty name only when no row names the product.
C12_NombreCanonico ==
  estado = "ok" =>
    LET e == Entrada
    IN  \A k \in 1..Len(merged_df) :
           LET cand == MasFrecuentes(NombresDe(e, merged_df[k].SKU))
               c    == merged_df[k].Nombre_canonico
           IN  IF cand = {} THEN c = <<>>
               ELSE c \in cand /\ \A m \in cand : Len(m) <= Len(c)

\* ------------------------------------------------------------------ C13
\* the canonical names a catalog gives to a product_id
Canonicos(m, sku) == {m[k].Nombre_canonico : k \in {i \in 1..Len(m) : m[i].SKU = sku}}

\* C13: however the suppliers, or the rows of a supplier, of the first run
\* are uploaded again in another order, every product_id has in the merged
\* catalog the canonical name it had in the catalog of the first run.
C13_OrdenIndiferente ==
  (estado = "ok" /\ original # <<>>) =>
     \A sku \in SkusGen :
        Canonicos(merged_df, sku) = Canonicos(original[1].merged_df, sku)

\* a product with two names of the same, highest frequency, whose rows are in
\* the catalog in another order than in the catalog of the first run
C13_Testigo ==
  /\ estado = "ok"
  /\ original # <<>>
  /\ \E sku \in SkusGen :
        LET ahora == SelectSeq(merged_df, LAMBDA r : r.SKU = sku)
            antes == SelectSeq(original[1].merged_df, LAMBDA r : r.SKU = sku)
        IN  /\ [i \in 1..Len(ahora) |-> ahora[i].Nombre]
                 # [i \in 1..Len(antes) |-> antes[i].Nombre]
            /\ Cardinality(MasFrecuentes(NombresDe(Entrada, sku))) > 1

\* ------------------------------------------------------------------ C14
\* C14: after a run that passes validation, of any two rows of the merged
\* catalog the one whose product_id is the smaller integer comes first.
C14_OrdenNumerico ==
  estado = "ok" =>
    \A i, j \in 1..Len(merged_df) :
       NumDe(merged_df[i].SKU) < NumDe(merged_df[j].SKU) => i < j

\* ------------------------------------------------------------------ C15
\* rows of the orderable set of one supplier
DeProveedor(prov) == {i \in 1..Len(gan_total) : gan_total[i].Proveedor = prov}

\* C15: after every run that passes validation, in either quantity-entry
\* mode, the suppliers with an order table are the suppliers of the orderable
\* set, the table of a supplier has one line for each of that supplier's rows
\* of the orderable set (product_id, canonical name and unit price) and no
\* other line, and its lines are in ascending order of the product_id as an
\* integer.
C15_LineasOrdenadas ==
  estado = "ok" =>
    /\ DOMAIN tablas_por_proveedor = {gan_total[i].Proveedor : i \in 1..Len(gan_total)}
    /\ \A prov \in DOMAIN tablas_por_proveedor :
          LET t == tablas_por_proveedor[prov]
          IN  /\ Len(t) = Cardinality(DeProveedor(prov))
              /\ \A i \in DeProveedor(prov) :
                    \E k \in 1..Len(t) :
                       /\ t[k].SKU = gan_total[i].SKU_str
                       /\ t[k].Nombre = gan_total[i].Nombre_canonico
                       /\ t[k].Precio = gan_total[i].Precio
              /\ \A k, l \in 1..Len(t) : k < l => NumDe(t[k].SKU) < NumDe(t[l].SKU)

\* with the per-row steppers on, a supplier whose rows are in the orderable
\* set in descending order of product_id
C15_Testigo ==
  /\ estado = "ok"
  /\ modo_flechas
  /\ \E i, j \in 1..Len(gan_total) :
        /\ i < j
        /\ gan_total[i].Proveedor = gan_total[j].Proveedor
        /\ NumDe(gan_total[i].SKU_str) > NumDe(gan_total[j].SKU_str)

\* ------------------------------------------------------------------ C16
\* the lines of the order tables, as <<supplier, position>>
Lineas(tablas) ==
  UNION { {<<prov, i>> : i \in 1..Len(tablas[prov])} : prov \in DOMAIN tablas }

\* the stored quantity of a key, 0 when none is stored
Cantidad(cant, k) == IF k \in DOMAIN cant THEN cant[k] ELSE 0

C16_Estado ==
  /\ \A k \in DOMAIN cantidades : cantidades[k] \in Nat
  /\ estado = "ok" =>
       \A l \in Lineas(tablas_por_proveedor) :
          LET r == tablas_por_proveedor[l[1]][l[2]]
          IN  /\ r.Cantidad = Cantidad(cantidades, <<l[1], r.SKU>>)
              /\ r.Total = Val(r.Precio) * r.Cantidad

C16_Paso ==
  /\ \A k \in DOMAIN cantidades' \ DOMAIN cantidades : cantidades'[k] = 0
  /\ \A k \in DOMAIN cantidades :
        (cantidades[k] > 0 /\ Cantidad(cantidades', k) = 0) =>
           /\ estado' = "ok"
           /\ \E l \in Lineas(tablas_por_proveedor') :
                 tablas_por_proveedor'[l[1]][l[2]].SKU = k[2] /\ l[1] = k[1]
           /\ \A l \in Lineas(tablas_por_proveedor') :
                 (l[1] = k[1] /\ tablas_por_proveedor'[l[1]][l[2]].SKU = k[2]) =>
                    tablas_por_proveedor'[l[1]][l[2]].Total = 0

\* C16: every stored quantity is a natural number, a key is first stored
\* with 0, every order line shows the quantity stored for its key and has
\* unit price times that quantity as its total; and a step that takes the
\* stored quantity of a key from a positive value to 0 is a run that
\* completes and shows the line of that key with total 0.
C16_Cantidades == [](C16_Estado) /\ [][C16_Paso]_vars

\* with the per-row steppers on, a supplier's table with a line at quantity 0
\* and total 0 and a line with a positive quantity and a positive total
C16_Testigo ==
  /\ estado = "ok"
  /\ modo_flechas
  /\ \E prov \in DOMAIN tablas_por_proveedor :
        \E i, j \in 1..Len(tablas_por_proveedor[prov]) :
           /\ tablas_por_proveedor[prov][i].Cantidad = 0
           /\ tablas_por_proveedor[prov][i].Total = 0
           /\ tablas_por_proveedor[prov][j].Cantidad > 0
           /\ tablas_por_proveedor[prov][j].Total > 0

\* ------------------------------------------------------------------ C17
\* the progress that matches a session: the real ties with a stored supplier
\* of their group, out of the real ties
AlDia(prog, er, sel) ==
  prog = << Cardinality({sku \in SkusEmpate(er) : Resuelto(er, sel, sku)}),
            Cardinality(SkusEmpate(er)) >>

\* C17: the run of a step in which the operator picks a supplier or the
\* placeholder in the selectbox of a real tie reports as progress the number
\* of real ties that have a stored supplier of their group once that run has
\* stored the pick, out of the number of real ties.
C17_ProgresoAlDia ==
  [][\A sku \in SkusPosibles, elegido \in ProveedoresPosibles \cup {PLACEHOLDER} :
       EsSeleccion(sku, elegido) => AlDia(progreso', empates_reales', empate_sel')]_vars

\* ------------------------------------------------------------------ C18
\* C18: after every run that passes validation, whatever choices are stored,
\* no two rows of the orderable set have the same product_id.
C18_UnaVez ==
  estado = "ok" =>
    \A i, j \in 1..Len(gan_total) :
       gan_total[i].SKU_str = gan_total[j].SKU_str => i = j

\* a choice stored for a product that is now the unique winner of the chosen
\* supplier, next to a resolved tie whose chosen supplier has several rows in
\* the group
C18_Testigo ==
  /\ estado = "ok"
  /\ \E s1 \in DictClaves(empate_sel) :
        /\ s1 \notin SkusEmpate(empates_reales)
        /\ \E i \in EnTabla(ganadores_unicos, s1) :
              ganadores_unicos[i].Proveedor = DictGet(empate_sel, s1, PLACEHOLDER)
        /\ EnGan(s1) # {}
  /\ \E s2 \in SkusEmpate(empates_reales) :
        /\ Resuelto(empates_reales, empate_sel, s2)
        /\ Cardinality({i \in EnTabla(empates_reales, s2) :
                          empates_reales[i].Proveedor
                            = DictGet(empate_sel, s2, PLACEHOLDER)}) > 1
        /\ EnGan(s2) # {}

\* ------------------------------------------------------------------ C19
\* C19: after every run that passes validation, a unique winner has a row in
\* the orderable set under its supplier whatever choices are stored, and when
\* every real tie has a stored supplier of its group the product_ids of the
\* orderable set are the product_ids with a priced row.
C19_Completo ==
  estado = "ok" =>
    /\ \A i \in 1..Len(ganadores_unicos) :
          \E j \in EnGan(ganadores_unicos[i].SKU_str) :
             gan_total[j].Proveedor = ganadores_unicos[i].Proveedor
    /\ (\A sku \in SkusEmpate(empates_reales) : Resuelto(empates_reales, empate_sel, sku))
         => {gan_total[i].SKU_str : i \in 1..Len(gan_total)} = SkusConPrecio

\* every real tie resolved, next to a unique winner for which a choice of
\* another supplier is still stored
C19_Testigo ==
  /\ estado = "ok"
  /\ empates_reales # <<>>
  /\ \A sku \in SkusEmpate(empates_reales) : Resuelto(empates_reales, empate_sel, sku)
  /\ \E i \in 1..Len(ganadores_unicos) :
        /\ DictTiene(empate_sel, ganadores_unicos[i].SKU_str)
        /\ DictGet(empate_sel, ganadores_unicos[i].SKU_str, PLACEHOLDER)
             # ganadores_unicos[i].Proveedor

\* ------------------------------------------------------------------ C20
\* a run on the same files, precision and entry mode as the run before it:
\* the run of a tie selection or of a quantity edit
MismosParametros ==
  /\ estado = "ok" /\ estado' = "ok"
  /\ files' = files
  /\ precision_empate' = precision_empate
  /\ modo_flechas' = modo_flechas

\* the keys whose quantity, stored or 0, is not the same after the step
CantidadesCambiadas ==
  {k \in DOMAIN cantidades \cup DOMAIN cantidades' :
     Cantidad(cantidades', k) # Cantidad(cantidades, k)}

\* the product_ids whose stored choice, or absence of one, is not the same
\* after the step
EleccionesCambiadas ==
  {sku \in DictClaves(empate_sel) \cup DictClaves(empate_sel') :
     DictGet(empate_sel', sku, PLACEHOLDER) # DictGet(empate_sel, sku, PLACEHOLDER)}

C20_Paso ==
  MismosParametros =>
    /\ CantidadesCambiadas # {} =>
          /\ EleccionesCambiadas = {}
          /\ Cardinality(CantidadesCambiadas) = 1
    /\ EleccionesCambiadas # {} =>
          /\ CantidadesCambiadas = {}
          /\ DOMAIN cantidades \subseteq DOMAIN cantidades'
          /\ Cardinality(EleccionesCambiadas) = 1

\* C20: a step that edits a quantity changes the quantity of one
\* (supplier, product_id) key and the stored choice of no product, and a step
\* that selects or clears the supplier of a tie changes the stored choice of
\* one product_id and no quantity.
C20_SoloLoSuyo == [][C20_Paso]_vars

\* with the per-row steppers on, two real ties with a stored supplier and two
\* keys with a positive quantity
C20_Testigo ==
  /\ estado = "ok"
  /\ modo_flechas
  /\ Cardinality({sku \in SkusEmpate(empates_reales) :
                    Resuelto(empates_reales, empate_sel, sku)}) > 1
  /\ Cardinality({k \in DOMAIN cantidades : cantidades[k] > 0}) > 1

====
